---- MODULE Spec2Model ----
(***************************************************************************)
(* git2md: a source tree is walked into a nested mapping (the structure),  *)
(* which is serialized to README.md (Markdown), structure.mmd (Mermaid)    *)
(* and llms.txt (heuristic summary).  Names, paths and produced texts are  *)
(* strings; string functions of the code are computed character by         *)
(* character.                                                              *)
(***************************************************************************)
EXTENDS Integers, Sequences, FiniteSets, TLC

VARIABLES
    is_local,    \* self.is_local
    fs,          \* the entries found under the source directory
    temp_dir,    \* self.temp_dir: "None", "exists" or "removed"
    pc,          \* position inside convert()
    pending,     \* directories os.walk still has to yield
    structure,   \* repo_structure, entries in insertion order
    outdir,      \* whether self.output_dir exists
    written,     \* output files written so far: sequence of [name, text]
    result,      \* value returned by convert(): "none", "True", "False"
    caught       \* the exception convert() caught: "none", "OSError", "TypeError"

vars == <<is_local, fs, temp_dir, pc, pending, structure, outdir, written, result, caught>>

(***************************************************************************)
(* Bounds of the model                                                     *)
(***************************************************************************)
MaxEntries == 3

(***************************************************************************)
(* Strings                                                                 *)
(***************************************************************************)
\* A TLA+ string cannot hold the backquote character: in every text of the
\* model the circumflex stands for it.
Backquote == "^"

\* the printable ASCII characters in code point order (double quote and
\* backslash, which occur in no name or text of the model, are left out; the
\* circumflex sits at the place of the backquote it stands for)
Ascii == " !#$%&'()*+,-./0123456789:;<=>?@ABCDEFGHIJKLMNOPQRSTUVWXYZ[]_^abcdefghijklmnopqrstuvwxyz{|}~"

UpperAlpha == "ABCDEFGHIJKLMNOPQRSTUVWXYZ"

LowerAlpha == "abcdefghijklmnopqrstuvwxyz"

Char(s, i) == SubSeq(s, i, i)

OrdTable == [c \in { Char(Ascii, i) : i \in 1..Len(Ascii) } |->
                CHOOSE i \in 1..Len(Ascii) : Char(Ascii, i) = c]

\* rank of c in code point order (control characters sort below the rest)
Ord(c) == IF c \in DOMAIN OrdTable THEN OrdTable[c] ELSE 0

\* the < of Python on str: lexicographic by code point
RECURSIVE StrLess(_, _)
StrLess(a, b) ==
    IF Len(b) = 0 THEN FALSE
    ELSE IF Len(a) = 0 THEN TRUE
    ELSE IF Char(a, 1) = Char(b, 1)
         THEN StrLess(SubSeq(a, 2, Len(a)), SubSeq(b, 2, Len(b)))
         ELSE Ord(Char(a, 1)) < Ord(Char(b, 1))

LowerTable == [c \in { Char(UpperAlpha, i) : i \in 1..26 } |->
                  Char(LowerAlpha, CHOOSE i \in 1..26 : Char(UpperAlpha, i) = c)]

LowerChar(c) == IF c \in DOMAIN LowerTable THEN LowerTable[c] ELSE c

\* str.lower()
RECURSIVE Lower(_)
Lower(s) ==
    IF Len(s) = 0 THEN "" ELSE LowerChar(Char(s, 1)) \o Lower(SubSeq(s, 2, Len(s)))

\* str.startswith / re.match of a literal pattern
StartsWith(s, p) == Len(s) >= Len(p) /\ SubSeq(s, 1, Len(p)) = p

\* str.endswith
EndsWith(s, p) == Len(s) >= Len(p) /\ SubSeq(s, Len(s) - Len(p) + 1, Len(s)) = p

\* the in operator on str
Contains(s, p) ==
    \E i \in 1..(Len(s) + 1) : i + Len(p) - 1 <= Len(s) /\ SubSeq(s, i, i + Len(p) - 1) = p

\* str.replace(old, new) for a one-character old
RECURSIVE ReplaceChar(_, _, _)
ReplaceChar(s, old, new) ==
    IF Len(s) = 0 THEN ""
    ELSE (IF Char(s, 1) = old THEN new ELSE Char(s, 1))
         \o ReplaceChar(SubSeq(s, 2, Len(s)), old, new)

\* str.replace(sub, empty)
RECURSIVE Remove(_, _)
Remove(s, sub) ==
    IF Len(s) = 0 THEN ""
    ELSE IF StartsWith(s, sub) THEN Remove(SubSeq(s, Len(sub) + 1, Len(s)), sub)
    ELSE Char(s, 1) \o Remove(SubSeq(s, 2, Len(s)), sub)

\* c * n
RECURSIVE Repeat(_, _)
Repeat(c, n) == IF n <= 0 THEN "" ELSE c \o Repeat(c, n - 1)

\* sep.join(list of str)
RECURSIVE Join(_, _)
Join(sep, ss) ==
    IF Len(ss) = 0 THEN ""
    ELSE IF Len(ss) = 1 THEN ss[1]
    ELSE ss[1] \o sep \o Join(sep, Tail(ss))

\* "".join(...)
Concat(ss) == Join("", ss)

Range(s) == { s[i] : i \in DOMAIN s }

\* every ordering of a finite set, as sequences
RECURSIVE Orderings(_)
Orderings(S) ==
    IF S = {} THEN { <<>> }
    ELSE UNION { { <<x>> \o q : q \in Orderings(S \ {x}) } : x \in S }

(***************************************************************************)
(* File texts, and what the parser and the regular expressions of the      *)
(* extraction passes find in each of them.  The regular expression engine  *)
(* and ast.parse are not modelled: Findings tabulates their results on the *)
(* texts of the model; in any other text of the model (the sentinels, the  *)
(* plain texts) no pattern matches.                                        *)
(***************************************************************************)
Plain == "hello"

MainSrc == "def add(a, b):\n  'Adds two numbers'\n  def helper(x): pass\nclass ParseError(Exception): pass"

AppSrc == "function run() {}"

ConfigSrc == "API_KEY = abc"

TestSrc == "import pytest\ndef test_add_two(): pass"

ReadmeSrc == "Tool.\n\n## Usage\nRun it.\n## License"

NoFindings ==
    [ py        |-> FALSE,    \* ast.parse(text) succeeds
      defs      |-> <<>>,     \* FunctionDef nodes in ast.walk order
      rx_funcs  |-> <<>>,     \* matches of the three fallback patterns
      env       |-> <<>>,     \* matches of env_pattern: <<name, default>>
      cfg       |-> <<>>,     \* key: value lines of config/settings blocks
      exc       |-> <<>>,     \* class XError(Base) matches
      handles   |-> <<>>,     \* names caught by try/except ... as
      blocks    |-> <<>>,     \* fenced code blocks shorter than 15 lines
      doctests  |-> <<>>,     \* doctest blocks
      usage     |-> "",       \* body of the first usage section, stripped
      has_usage |-> FALSE,    \* the usage heading is present
      tests     |-> <<>>,     \* test_ names after def or test
      framework |-> "" ]      \* first testing framework whose pattern matches

Findings(text) ==
    CASE text = MainSrc ->
            [NoFindings EXCEPT
                !.py = TRUE,
                !.defs = << [name |-> "add", args |-> <<"a", "b">>,
                             doc |-> "Adds two numbers", top |-> TRUE],
                            [name |-> "helper", args |-> <<"x">>, doc |-> "", top |-> FALSE] >>,
                !.rx_funcs = << [name |-> "add", args |-> "a, b"],
                                [name |-> "helper", args |-> "x"] >>,
                !.exc = << "ParseError" >> ]
      [] text = AppSrc ->
            [NoFindings EXCEPT !.rx_funcs = << [name |-> "run", args |-> ""] >> ]
      [] text = ConfigSrc ->
            [NoFindings EXCEPT !.py = TRUE, !.env = << <<"API_KEY", "abc">> >> ]
      [] text = TestSrc ->
            [NoFindings EXCEPT
                !.py = TRUE,
                !.defs = << [name |-> "test_add_two", args |-> <<>>, doc |-> "", top |-> TRUE] >>,
                !.rx_funcs = << [name |-> "test_add_two", args |-> ""] >>,
                !.tests = << "test_add_two" >>,
                !.framework = "pytest" ]
      [] text = ReadmeSrc ->
            [NoFindings EXCEPT !.usage = "Run it.", !.has_usage = TRUE ]
      [] text = Plain \/ text = "" -> [NoFindings EXCEPT !.py = TRUE]
      [] OTHER -> NoFindings

(***************************************************************************)
(* The entries a source tree of the model is drawn from.  data is how the  *)
(* bytes of a file behave when opened: utf8 (decodes), nonutf8 (decoding   *)
(* fails), denied (open raises PermissionError).                           *)
(***************************************************************************)
File(path, data, content) == [path |-> path, kind |-> "file", data |-> data, content |-> content]

Dir(path) == [path |-> path, kind |-> "dir", data |-> "", content |-> ""]

Universe ==
    { File(<<"a.txt">>, "utf8", Plain),
      File(<<".gitignore">>, "utf8", Plain),
      File(<<"m.pyc">>, "nonutf8", ""),
      File(<<"img.png">>, "nonutf8", ""),
      File(<<"locked.txt">>, "denied", Plain),
      File(<<"Config.json">>, "utf8", ConfigSrc),
      File(<<"Test.py">>, "utf8", TestSrc),
      File(<<"main.py">>, "utf8", MainSrc),
      File(<<"app.py">>, "utf8", AppSrc),
      File(<<"README.md">>, "utf8", ReadmeSrc),
      Dir(<<".git">>),
      File(<<".git", "HEAD">>, "utf8", Plain),
      Dir(<<"src">>),
      File(<<"src", "a.txt">>, "utf8", Plain),
      File(<<"src", "app.py">>, "utf8", AppSrc),
      Dir(<<"src", "__pycache__">>),
      File(<<"src", "__pycache__", "a.txt">>, "utf8", Plain) }

Parent(path) == SubSeq(path, 1, Len(path) - 1)

Name(path) == path[Len(path)]

\* a tree: every entry but the top ones lies in a directory of the tree
IsTree(T) ==
    \A e \in T : Len(e.path) > 1 => \E d \in T : d.kind = "dir" /\ d.path = Parent(e.path)

Trees == { T \in SUBSET Universe : Cardinality(T) <= MaxEntries /\ IsTree(T) }

\* os.path.join(root, file) relative to the source directory
PathStr(path) == Join("/", path)

(***************************************************************************)
(* Git2Markdown.__init__ / _get_repo_name                                  *)
(***************************************************************************)
\* os.path.basename of a local source, urlparse(...).path.strip('/') of a URL
SourcePath(local) == IF local THEN "My_Repo" ELSE "org/My_Repo.git"

\* path.split('/')[:2] joined as org-repo
RECURSIVE OrgRepo(_, _)
OrgRepo(path, seen) ==
    IF Len(path) = 0 THEN seen
    ELSE IF Char(path, 1) = "/"
         THEN (IF Contains(seen, "-") THEN seen
               ELSE OrgRepo(SubSeq(path, 2, Len(path)), seen \o "-"))
         ELSE OrgRepo(SubSeq(path, 2, Len(path)), seen \o Char(path, 1))

_get_repo_name(local) ==
    LET path == SourcePath(local)
        name == IF local THEN path
                ELSE Remove(IF Contains(path, "/") THEN OrgRepo(path, "") ELSE path, ".git")
    IN  Lower(ReplaceChar(ReplaceChar(name, "/", "-"), "_", "-"))

repo_name == _get_repo_name(is_local)

(***************************************************************************)
(* Tree Builder: analyze_repo_structure and _is_binary_file                *)
(***************************************************************************)
\* any(pattern.match(name) for pattern in ignore_regex): re.match anchors the
\* pattern at the start of the name only
IgnoreMatch(name) ==
    \/ StartsWith(name, ".git")
    \/ StartsWith(name, "__pycache__")
    \/ EndsWith(name, ".pyc")
    \/ StartsWith(name, ".DS_Store")

\* dirs[:] = [d for d in dirs if not any(...)], over the names os.walk lists
KeepAllDirs(dirs) == dirs

FilterDirs(dirs) == SelectSeq(dirs, LAMBDA d : ~IgnoreMatch(d))

\* "True", "False", or the exception that is not caught there
_is_binary_file(e) ==
    CASE e.data = "denied"  -> "PermissionError"
      [] e.data = "nonutf8" -> "True"
      [] OTHER              -> "False"

ErrorMessage(e) == "[Errno 13] Permission denied: '" \o PathStr(e.path) \o "'"

\* the value stored for one file: the try/except of the file loop
ReadLeaf(e) ==
    LET is_binary == _is_binary_file(e)
    IN  CASE is_binary = "PermissionError" ->
                "[Error reading file: " \o ErrorMessage(e) \o "]"
          [] is_binary = "True" -> "[Binary file]"
          [] OTHER -> e.content

HasKey(s, path) == \E i \in DOMAIN s : s[i].path = path

\* current_level[key] = value: a new key goes last, an old key keeps its place
SetItem(s, path, leaf, content) ==
    IF HasKey(s, path)
    THEN [i \in DOMAIN s |->
            IF s[i].path = path THEN [path |-> path, leaf |-> leaf, content |-> content]
            ELSE s[i]]
    ELSE Append(s, [path |-> path, leaf |-> leaf, content |-> content])

\* for part in path_parts: if part not in current_level: current_level[part] = {}
RECURSIVE EnsureParts(_, _, _)
EnsureParts(s, path, n) ==
    IF n > Len(path) THEN s
    ELSE EnsureParts(
            IF HasKey(s, SubSeq(path, 1, n)) THEN s
            ELSE SetItem(s, SubSeq(path, 1, n), FALSE, ""),
            path, n + 1)

Entry(T, path) == CHOOSE e \in T : e.path = path

\* a variant of the file loop whose try encloses the loop: the first error
\* ends the loop
RECURSIVE FileLoopAbortOnError(_, _, _, _)
FileLoopAbortOnError(T, s, root, files) ==
    IF Len(files) = 0 THEN s
    ELSE LET file == Head(files)
             e == Entry(T, root \o <<file>>)
         IN  IF IgnoreMatch(file) THEN FileLoopAbortOnError(T, s, root, Tail(files))
             ELSE IF _is_binary_file(e) = "PermissionError"
                  THEN SetItem(s, e.path, TRUE, ReadLeaf(e))
                  ELSE FileLoopAbortOnError(T, SetItem(s, e.path, TRUE, ReadLeaf(e)),
                                            root, Tail(files))

\* for file in files: ... (lines 238-260)
RECURSIVE FileLoop(_, _, _, _)
FileLoop(T, s, root, files) ==
    IF Len(files) = 0 THEN s
    ELSE LET file == Head(files)
             e == Entry(T, root \o <<file>>)
         IN  IF IgnoreMatch(file) THEN FileLoop(T, s, root, Tail(files))
             ELSE FileLoop(T, SetItem(s, e.path, TRUE, ReadLeaf(e)), root, Tail(files))

\* the names os.walk lists in directory root
Listing(T, root, kind) ==
    { Name(e.path) : e \in { x \in T : x.kind = kind /\ Len(x.path) = Len(root) + 1
                                        /\ Parent(x.path) = root } }

\* the body of the os.walk loop after the filter: lines 225-260
LoopBody(T, s, root, files) == FileLoop(T, EnsureParts(s, root, 1), root, files)

\* the directories os.walk descends into next: what the filter left in dirs
Descend(root, dirs) == [i \in 1..Len(FilterDirs(dirs)) |-> root \o <<FilterDirs(dirs)[i]>>]

\* sorted(S) for a set of str: the least element first
RECURSIVE SetToSortedSeq(_)
SetToSortedSeq(S) ==
    IF S = {} THEN <<>>
    ELSE LET least == CHOOSE x \in S : \A y \in S : ~StrLess(y, x)
         IN  <<least>> \o SetToSortedSeq(S \ {least})

\* analyze_repo_structure as a function of the tree, os.walk listing every
\* directory in name order
RECURSIVE analyze_repo_structure(_, _, _)
analyze_repo_structure(T, todo, s) ==
    IF Len(todo) = 0 THEN s
    ELSE LET root == Head(todo)
         IN  analyze_repo_structure(T,
                Descend(root, SetToSortedSeq(Listing(T, root, "dir"))) \o Tail(todo),
                LoopBody(T, s, root, SetToSortedSeq(Listing(T, root, "file"))))

(***************************************************************************)
(* convert(): Init, and one action per step                                *)
(***************************************************************************)
OutputNames == <<"README.md", "structure.mmd", "llms.txt">>

\* a variant that leaves the directory in place
CleanupSkipped(td) == td

\* Git2Markdown.cleanup: removes the directory self.temp_dir names, if any
cleanup(td) == IF td = "exists" THEN "removed" ELSE td

Init ==
    /\ is_local \in BOOLEAN
    /\ fs \in Trees
    /\ temp_dir = "None"
    /\ pc = "start"
    /\ pending = <<>>
    /\ structure = <<>>
    /\ outdir = FALSE
    /\ written = <<>>
    /\ result = "none"
    /\ caught = "none"

\* return False out of convert(), through the finally clause
ReturnFalse ==
    /\ result' = "False"
    /\ pc' = "done"

\* except Exception as e: ... return False, through the finally clause
Raise(e) ==
    /\ caught' = e
    /\ ReturnFalse

\* source_dir = self._prepare_source(): a local source is returned as it is;
\* otherwise mkdtemp creates the directory (or raises) and the clone into it
\* succeeds or fails
PrepareSource ==
    /\ pc = "start"
    /\ IF is_local
       THEN /\ pc' = "walk"
            /\ pending' = << <<>> >>
            /\ UNCHANGED <<temp_dir, result, caught>>
       ELSE \E outcome \in {"cloned", "clone failed", "mkdtemp raised"} :
               CASE outcome = "cloned" ->
                        /\ temp_dir' = "exists"
                        /\ pc' = "walk"
                        /\ pending' = << <<>> >>
                        /\ UNCHANGED <<result, caught>>
                 [] outcome = "clone failed" ->
                        /\ temp_dir' = cleanup("exists")
                        /\ ReturnFalse
                        /\ UNCHANGED <<pending, caught>>
                 [] OTHER ->
                        /\ temp_dir' = cleanup(temp_dir)
                        /\ Raise("OSError")
                        /\ UNCHANGED pending
    /\ UNCHANGED <<is_local, fs, structure, outdir, written>>

\* one iteration of for root, dirs, files in os.walk(source_dir); a statement
\* outside the try of the file loop (the progress prints, os.walk itself) may
\* raise, which ends convert() with repo_structure never assigned
WalkDir ==
    /\ pc = "walk"
    /\ pending # <<>>
    /\ \E raised \in BOOLEAN :
          IF raised
          THEN /\ temp_dir' = cleanup(temp_dir)
               /\ Raise("OSError")
               /\ structure' = <<>>
               /\ pending' = <<>>
          ELSE LET root == Head(pending)
               IN  \E dirs \in Orderings(Listing(fs, root, "dir")),
                      files \in Orderings(Listing(fs, root, "file")) :
                      LET rest == Descend(root, dirs) \o Tail(pending)
                      IN  /\ structure' = LoopBody(fs, structure, root, files)
                          /\ pending' = rest
                          /\ pc' = IF rest = <<>> THEN "makedirs" ELSE "walk"
                          /\ UNCHANGED <<temp_dir, result, caught>>
    /\ UNCHANGED <<is_local, fs, outdir, written>>

\* os.makedirs(self.output_dir, exist_ok=True)
MakeDirs ==
    /\ pc = "makedirs"
    /\ \E created \in BOOLEAN :
          IF created
          THEN /\ outdir' = TRUE
               /\ pc' = "generate"
               /\ UNCHANGED <<temp_dir, result, caught>>
          ELSE /\ temp_dir' = cleanup(temp_dir)
               /\ Raise("OSError")
               /\ UNCHANGED outdir
    /\ UNCHANGED <<is_local, fs, pending, structure, written>>

(***************************************************************************)
(* Structural serializers: generate_markdown, generate_mermaid_diagram     *)
(***************************************************************************)
\* structure.items() of the mapping at path, in insertion order
Items(s, path) ==
    SelectSeq(s, LAMBDA e : Len(e.path) = Len(path) + 1 /\ Parent(e.path) = path)

\* a variant that iterates structure.items() without sorting
UnsortedItems(s, path) ==
    SelectSeq(s, LAMBDA e : Len(e.path) = Len(path) + 1 /\ Parent(e.path) = path)

\* sorted(structure.items()): names are unique in a mapping, so the pairs
\* are ordered by name
SortedItems(s, path) ==
    SortSeq(Items(s, path), LAMBDA a, b : StrLess(Name(a.path), Name(b.path)))

Fence == Repeat(Backquote, 3)

\* a variant that does not pass level + 1 down
RECURSIVE MarkdownFlat(_, _, _)
MarkdownFlat(s, items, level) ==
    IF Len(items) = 0 THEN ""
    ELSE LET e == Head(items)
         IN  (IF ~e.leaf
              THEN Repeat("#", level + 2) \o " " \o Name(e.path) \o "\n\n"
                   \o MarkdownFlat(s, SortedItems(s, e.path), level)
              ELSE Repeat("#", level + 3) \o " " \o Name(e.path) \o "\n\n"
                   \o Fence \o "\n" \o e.content \o "\n" \o Fence \o "\n\n")
             \o MarkdownFlat(s, Tail(items), level)

\* the loop of _generate_markdown_recursive over the sorted items of one level
RECURSIVE _generate_markdown_recursive(_, _, _)
_generate_markdown_recursive(s, items, level) ==
    IF Len(items) = 0 THEN ""
    ELSE LET e == Head(items)
         IN  (IF ~e.leaf
              THEN Repeat("#", level + 2) \o " " \o Name(e.path) \o "\n\n"
                   \o _generate_markdown_recursive(s, SortedItems(s, e.path), level + 1)
              ELSE Repeat("#", level + 3) \o " " \o Name(e.path) \o "\n\n"
                   \o Fence \o "\n" \o e.content \o "\n" \o Fence \o "\n\n")
             \o _generate_markdown_recursive(s, Tail(items), level)

\* the title is assigned to the outer markdown_content, which the returned
\* join does not read
generate_markdown(s) ==
    LET markdown_content == "# " \o repo_name \o "\n\n"
    IN  _generate_markdown_recursive(s, SortedItems(s, <<>>), 0)

\* a variant that names a node after its entry instead of the counter
RECURSIVE MermaidByName(_, _, _, _, _)
MermaidByName(s, items, parent_node, lines, node_counter) ==
    IF Len(items) = 0 THEN [lines |-> lines, node_counter |-> node_counter]
    ELSE LET e == Head(items)
             current_node == "N" \o Name(e.path)
         IN  IF ~e.leaf
             THEN LET r == MermaidByName(s, SortedItems(s, e.path), current_node,
                               Append(lines, "    " \o parent_node \o " --> " \o current_node
                                             \o "[" \o Name(e.path) \o "]"),
                               node_counter + 1)
                  IN  MermaidByName(s, Tail(items), parent_node, r.lines, r.node_counter)
             ELSE MermaidByName(s, Tail(items), parent_node,
                       Append(lines, "    " \o parent_node \o " --> " \o current_node
                                     \o "{'" \o Name(e.path) \o "'}"),
                       node_counter + 1)

\* the loop of _generate_mermaid_recursive; node_counter is the nonlocal
RECURSIVE _generate_mermaid_recursive(_, _, _, _, _)
_generate_mermaid_recursive(s, items, parent_node, lines, node_counter) ==
    IF Len(items) = 0 THEN [lines |-> lines, node_counter |-> node_counter]
    ELSE LET e == Head(items)
             current_node == "N" \o ToString(node_counter)
         IN  IF ~e.leaf
             THEN LET r == _generate_mermaid_recursive(s, SortedItems(s, e.path), current_node,
                               Append(lines, "    " \o parent_node \o " --> " \o current_node
                                             \o "[" \o Name(e.path) \o "]"),
                               node_counter + 1)
                  IN  _generate_mermaid_recursive(s, Tail(items), parent_node,
                                                  r.lines, r.node_counter)
             ELSE _generate_mermaid_recursive(s, Tail(items), parent_node,
                       Append(lines, "    " \o parent_node \o " --> " \o current_node
                                     \o "{'" \o Name(e.path) \o "'}"),
                       node_counter + 1)

mermaid_lines(s) ==
    _generate_mermaid_recursive(s, SortedItems(s, <<>>), "A",
                                <<"graph TD", "    A[" \o repo_name \o "]">>, 1).lines

generate_mermaid_diagram(s) == Join("\n", mermaid_lines(s))

(***************************************************************************)
(* Heuristic extraction and summary: generate_llms_txt                     *)
(***************************************************************************)
InList(x, xs) == \E i \in DOMAIN xs : xs[i] = x

MainNames == <<"main.py", "index.js", "app.py">>

ConfigNames == <<"config.json", "settings.py", ".env.example">>

NoFiles ==
    [ files |-> <<>>, has_readme |-> FALSE, readme_content |-> "",
      has_main |-> FALSE, main_file |-> [path |-> "", content |-> ""],
      test_files |-> <<>>, config_files |-> <<>> ]

\* the if/elif chain of collect_files for one file
Classify(acc, name, full_path, content) ==
    LET f == [path |-> full_path, content |-> content]
        a == [acc EXCEPT !.files = Append(@, f)]
    IN  IF Lower(name) = "readme.md"
        THEN [a EXCEPT !.has_readme = TRUE, !.readme_content = content]
        ELSE IF InList(Lower(name), MainNames)
        THEN [a EXCEPT !.has_main = TRUE, !.main_file = f]
        ELSE IF Contains(Lower(name), "test")
        THEN [a EXCEPT !.test_files = Append(@, f)]
        ELSE IF InList(Lower(name), ConfigNames)
        THEN [a EXCEPT !.config_files = Append(@, f)]
        ELSE a

\* collect_files: the loop over structure.items(), in insertion order
RECURSIVE collect_files(_, _, _)
collect_files(s, items, acc) ==
    IF Len(items) = 0 THEN acc
    ELSE LET e == Head(items)
         IN  collect_files(s, Tail(items),
                IF ~e.leaf THEN collect_files(s, Items(s, e.path), acc)
                ELSE Classify(acc, Name(e.path), PathStr(e.path), e.content))

_detect_tech_stack(files) ==
    SetToSortedSeq(
        { IF EndsWith(files[i].path, ".py") THEN "Python"
          ELSE IF EndsWith(files[i].path, ".js") THEN "JavaScript"
          ELSE "TypeScript/React" :
          i \in { j \in DOMAIN files : \/ EndsWith(files[j].path, ".py")
                                       \/ EndsWith(files[j].path, ".js")
                                       \/ EndsWith(files[j].path, ".tsx") } })

OrPlaceholder(lines, placeholder) == IF Len(lines) = 0 THEN <<placeholder>> ELSE lines

_extract_key_functions(content) ==
    OrPlaceholder(
        IF Findings(content).py
        THEN [i \in DOMAIN Findings(content).defs |->
                LET node == Findings(content).defs[i]
                    doc  == IF node.doc = "" THEN "No description available" ELSE node.doc
                IN  "- " \o Backquote \o node.name \o "(" \o Join(", ", node.args) \o ")"
                    \o Backquote \o ": " \o doc]
        ELSE [i \in DOMAIN Findings(content).rx_funcs |->
                "- " \o Backquote \o Findings(content).rx_funcs[i].name \o "("
                \o Findings(content).rx_funcs[i].args \o ")" \o Backquote
                \o ": Function definition"],
        "No functions extracted")

_extract_config_details(content) ==
    OrPlaceholder(
        [i \in DOMAIN Findings(content).env |->
            LET m == Findings(content).env[i]
            IN  "- " \o Backquote \o m[1] \o Backquote \o ": Required environment variable"
                \o (IF m[2] # "" THEN " (default: " \o m[2] \o ")" ELSE "")]
        \o [i \in DOMAIN Findings(content).cfg |->
            LET m == Findings(content).cfg[i]
            IN  "- " \o Backquote \o m[1] \o Backquote \o ": " \o m[2]],
        "No configuration details found")

_extract_error_patterns(files) ==
    OrPlaceholder(
        SetToSortedSeq(
            UNION { { "- Custom exception: " \o Backquote \o x \o Backquote :
                        x \in Range(Findings(files[i].content).exc) }
                    \cup { "- Handles: " \o Backquote \o x \o Backquote :
                        x \in Range(Findings(files[i].content).handles) } :
                    i \in DOMAIN files }),
        "No error handling patterns documented")

RECURSIVE FileExamples(_)
FileExamples(files) ==
    IF Len(files) = 0 THEN <<>>
    ELSE LET f == Head(files)
             lp == Lower(f.path)
             found == Findings(f.content)
         IN  (IF EndsWith(lp, ".md") \/ EndsWith(lp, ".rst")
              THEN [i \in DOMAIN found.blocks |->
                        Fence \o "\n" \o found.blocks[i] \o "\n" \o Fence]
              ELSE <<>>)
             \o (IF EndsWith(lp, ".py")
                 THEN [i \in DOMAIN found.doctests |->
                        Fence \o "python\n" \o found.doctests[i] \o Fence]
                 ELSE <<>>)
             \o FileExamples(Tail(files))

_extract_examples(files) ==
    LET readmes == SelectSeq(files, LAMBDA f : Lower(f.path) = "readme.md")
    IN  OrPlaceholder(
            FileExamples(files)
            \o (IF Len(readmes) > 0 /\ Findings(readmes[1].content).has_usage
                THEN <<Findings(readmes[1].content).usage>> ELSE <<>>),
            "No examples found")

UpperChar(c) ==
    IF \E i \in 1..26 : Char(LowerAlpha, i) = c
    THEN Char(UpperAlpha, CHOOSE i \in 1..26 : Char(LowerAlpha, i) = c)
    ELSE c

\* str.capitalize()
Capitalize(x) ==
    IF Len(x) = 0 THEN "" ELSE UpperChar(Char(x, 1)) \o Lower(SubSeq(x, 2, Len(x)))

RECURSIVE _extract_test_patterns_loop(_, _)
_extract_test_patterns_loop(test_files, patterns) ==
    IF Len(test_files) = 0 THEN patterns
    ELSE LET c == Findings(Head(test_files).content)
             p1 == patterns \o [i \in DOMAIN c.tests |->
                      "- " \o Capitalize(ReplaceChar(Remove(c.tests[i], "test_"), "_", " "))]
             p2 == IF c.framework # ""
                   THEN <<"Using " \o c.framework \o " testing framework">> \o p1
                   ELSE p1
         IN  _extract_test_patterns_loop(Tail(test_files), p2)

_extract_test_patterns(test_files) ==
    OrPlaceholder(_extract_test_patterns_loop(test_files, <<>>), "No test patterns found")

\* readme_content.split("\n\n")[0]
RECURSIVE FirstParagraph(_)
FirstParagraph(text) ==
    IF Len(text) = 0 \/ StartsWith(text, "\n\n") THEN ""
    ELSE Char(text, 1) \o FirstParagraph(SubSeq(text, 2, Len(text)))

\* an element of the list sections: a str, or a list of str
Str(x) == [isstr |-> TRUE, s |-> x, l |-> <<>>]

Lst(xs) == [isstr |-> FALSE, s |-> "", l |-> xs]

Strs(xs) == [i \in DOMAIN xs |-> Str(xs[i])]

\* for config_file, content in config_files: two appends each
RECURSIVE ConfigEntries(_)
ConfigEntries(config_files) ==
    IF Len(config_files) = 0 THEN <<>>
    ELSE << Str("### " \o Head(config_files).path),
            Lst(_extract_config_details(Head(config_files).content)) >>
         \o ConfigEntries(Tail(config_files))

\* a variant that emits Error Handling before Core Functionality
SectionsSwapped(c) ==
    << Str("# " \o repo_name) >>
    \o (IF c.has_readme /\ c.readme_content # ""
        THEN << Str(FirstParagraph(c.readme_content)) >> ELSE <<>>)
    \o << Str("") >>
    \o << Str("## Technical Stack") >>
    \o Strs([i \in DOMAIN _detect_tech_stack(c.files) |->
                "- " \o _detect_tech_stack(c.files)[i]])
    \o << Str("") >>
    \o << Str("## Error Handling") >>
    \o Strs(_extract_error_patterns(c.files))
    \o << Str("") >>
    \o (IF Len(c.config_files) > 0
        THEN << Str("## Configuration"), Str("Required configuration:") >>
             \o ConfigEntries(c.config_files)
             \o << Str("") >>
        ELSE <<>>)
    \o << Str("## Core Functionality") >>
    \o (IF c.has_main
        THEN << Str("Main entry point: " \o c.main_file.path), Str("Key operations:") >>
             \o Strs(_extract_key_functions(c.main_file.content))
        ELSE <<>>)
    \o << Str("") >>
    \o << Str("## Usage Examples") >>
    \o Strs(_extract_examples(c.files))
    \o << Str("") >>
    \o (IF Len(c.test_files) > 0
        THEN << Str("## Development Notes"), Str("Testing approach:") >>
             \o Strs(_extract_test_patterns(c.test_files))
        ELSE <<>>)

\* the list sections built by generate_llms_txt (lines 405-454)
Sections(c) ==
    << Str("# " \o repo_name) >>
    \o (IF c.has_readme /\ c.readme_content # ""
        THEN << Str(FirstParagraph(c.readme_content)) >> ELSE <<>>)
    \o << Str("") >>
    \o << Str("## Technical Stack") >>
    \o Strs([i \in DOMAIN _detect_tech_stack(c.files) |->
                "- " \o _detect_tech_stack(c.files)[i]])
    \o << Str("") >>
    \o << Str("## Core Functionality") >>
    \o (IF c.has_main
        THEN << Str("Main entry point: " \o c.main_file.path), Str("Key operations:") >>
             \o Strs(_extract_key_functions(c.main_file.content))
        ELSE <<>>)
    \o << Str("") >>
    \o (IF Len(c.config_files) > 0
        THEN << Str("## Configuration"), Str("Required configuration:") >>
             \o ConfigEntries(c.config_files)
             \o << Str("") >>
        ELSE <<>>)
    \o << Str("## Error Handling") >>
    \o Strs(_extract_error_patterns(c.files))
    \o << Str("") >>
    \o << Str("## Usage Examples") >>
    \o Strs(_extract_examples(c.files))
    \o << Str("") >>
    \o (IF Len(c.test_files) > 0
        THEN << Str("## Development Notes"), Str("Testing approach:") >>
             \o Strs(_extract_test_patterns(c.test_files))
        ELSE <<>>)

\* "\n".join(sections): str.join raises TypeError on an item that is not a str
JoinSections(sections) ==
    IF \E i \in DOMAIN sections : ~sections[i].isstr
    THEN [raised |-> TRUE, text |-> ""]
    ELSE [raised |-> FALSE, text |-> Join("\n", [i \in DOMAIN sections |-> sections[i].s])]

\* the body of generate_llms_txt: the text it builds, or the exception
generate_llms_txt(s) == JoinSections(Sections(collect_files(s, Items(s, <<>>), NoFiles)))

\* content = generator(repo_structure), for the i-th entry of files_to_generate
Generator(i, s) ==
    CASE i = 1 -> [raised |-> FALSE, text |-> generate_markdown(s)]
      [] i = 2 -> [raised |-> FALSE, text |-> generate_mermaid_diagram(s)]
      [] OTHER -> generate_llms_txt(s)

\* one iteration of for filename, generator in files_to_generate: the
\* generator may raise, and so may open(output_path, "w") or f.write
Generate ==
    /\ pc = "generate"
    /\ LET i == Len(written) + 1
           content == Generator(i, structure)
       IN  IF content.raised
           THEN /\ temp_dir' = cleanup(temp_dir)
                /\ Raise("TypeError")
                /\ UNCHANGED written
           ELSE \E stored \in BOOLEAN :
                   IF stored
                   THEN /\ written' = Append(written, [name |-> OutputNames[i],
                                                       text |-> content.text])
                        /\ pc' = IF i = Len(OutputNames) THEN "summary" ELSE "generate"
                        /\ UNCHANGED <<temp_dir, result, caught>>
                   ELSE /\ temp_dir' = cleanup(temp_dir)
                        /\ Raise("OSError")
                        /\ UNCHANGED written
    /\ UNCHANGED <<is_local, fs, pending, structure, outdir>>

\* self.stats.print_summary() ... return True, through the finally clause
ReturnTrue ==
    /\ pc = "summary"
    /\ result' = "True"
    /\ temp_dir' = cleanup(temp_dir)
    /\ pc' = "done"
    /\ UNCHANGED <<is_local, fs, pending, structure, outdir, written, caught>>

Next == PrepareSource \/ WalkDir \/ MakeDirs \/ Generate \/ ReturnTrue

Spec == Init /\ [][Next]_vars

(***************************************************************************)
(* Notions the properties are stated with                                  *)
(***************************************************************************)
HasOutput(name) == \E i \in DOMAIN written : written[i].name = name

Output(name) == written[CHOOSE i \in DOMAIN written : written[i].name = name].text

IsPrefix(p, q) == Len(p) <= Len(q) /\ SubSeq(q, 1, Len(p)) = p

Files(T) == { e \in T : e.kind = "file" }

Leaves(s) == { s[i].path : i \in { j \in DOMAIN s : s[j].leaf } }

Paths(s) == { s[i].path : i \in DOMAIN s }

Leaf(s, path) == s[CHOOSE i \in DOMAIN s : s[i].path = path].content

\* analyze_repo_structure has returned and nothing has been generated yet
Analyzed == pc = "makedirs"

\* the k-th output file has just been written (a written text never changes)
Wrote(k) == Len(written) = k /\ pc \in {"generate", "summary"}

\* lexicographic order of paths by name: the alphabetical pre-order
RECURSIVE PathLess(_, _)
PathLess(p, q) ==
    IF Len(q) = 0 THEN FALSE
    ELSE IF Len(p) = 0 THEN TRUE
    ELSE IF Head(p) = Head(q) THEN PathLess(Tail(p), Tail(q))
    ELSE StrLess(Head(p), Head(q))

PreOrder(s) == SortSeq(s, LAMBDA a, b : PathLess(a.path, b.path))

\* C1: with the source prepared and the output directory created, and no
\* failure of the file system while writing, convert() returns True and has
\* written README.md, structure.mmd and llms.txt, whatever files the tree
\* holds.
C1_AllArtifactsWritten ==
    (pc = "done" /\ outdir /\ caught # "OSError") =>
        /\ result = "True"
        /\ \A i \in DOMAIN OutputNames : HasOutput(OutputNames[i])

\* the names the exclusion rule set is specified to remove
ExcludedDirNames == {".git", "__pycache__"}

UnderExcludedDir(T, path) ==
    \E d \in T : /\ d.kind = "dir"
                 /\ Name(d.path) \in ExcludedDirNames
                 /\ IsPrefix(d.path, path)

Pruned(T) == { e \in T : ~UnderExcludedDir(T, e.path) }

\* C2: a directory named .git or __pycache__, at any depth and with or
\* without entries, is never a node of the tree, nor is anything below it;
\* the Markdown and the diagram hold no heading or node of that name, and are
\* the outputs of the tree without these directories.
C2_ExcludedDirsNeverAppear ==
    /\ \A e \in fs : UnderExcludedDir(fs, e.path) => e.path \notin Paths(structure)
    /\ Wrote(1) =>
          /\ \A n \in ExcludedDirNames : ~Contains(Output("README.md"), "# " \o n \o "\n")
          /\ Output("README.md")
                = generate_markdown(analyze_repo_structure(Pruned(fs), << <<>> >>, <<>>))
    /\ Wrote(2) =>
          /\ \A n \in ExcludedDirNames : ~Contains(Output("structure.mmd"), "[" \o n \o "]")
          /\ Output("structure.mmd")
                = generate_mermaid_diagram(analyze_repo_structure(Pruned(fs), << <<>> >>, <<>>))

\* a non-empty excluded directory below another directory was walked past and
\* both structural outputs are written
C2_Witness ==
    /\ HasOutput("structure.mmd")
    /\ \E d \in fs : /\ d.kind = "dir" /\ Len(d.path) = 2
                     /\ Name(d.path) \in ExcludedDirNames
                     /\ \E f \in Files(fs) : Parent(f.path) = d.path
    /\ <<"src">> \in Paths(structure)

\* the exclusion rule set as specified: the named directories and files
SpecExcluded(name) ==
    \/ name = ".git"
    \/ name = "__pycache__"
    \/ EndsWith(name, ".pyc")
    \/ name = ".DS_Store"

\* C3: the leaves of the built tree are exactly the files none of whose path
\* names is .git, __pycache__, *.pyc or .DS_Store.
C3_LeavesAreTheRetainedFiles ==
    Analyzed =>
        Leaves(structure)
            = { f.path : f \in { e \in Files(fs) :
                    \A i \in DOMAIN e.path : ~SpecExcluded(e.path[i]) } }

\* what the walk keeps: no name on the path matches an ignore pattern
Retained(path) == \A i \in DOMAIN path : ~IgnoreMatch(path[i])

\* C4: a file whose reading raises becomes a leaf holding the error message,
\* and every other retained file is a leaf with the value it has without the
\* failure: its text, or the binary marker.
C4_ErrorLeafAndOthersKept ==
    Analyzed =>
        \A f \in Files(fs) : Retained(f.path) =>
            /\ f.path \in Leaves(structure)
            /\ Leaf(structure, f.path) =
                  CASE f.data = "denied" ->
                          "[Error reading file: [Errno 13] Permission denied: '"
                          \o PathStr(f.path) \o "']"
                    [] f.data = "nonutf8" -> "[Binary file]"
                    [] OTHER -> f.content

\* an unreadable file was met before another file of the tree was read
C4_Witness ==
    /\ Analyzed
    /\ \E i, j \in DOMAIN structure :
          /\ i < j
          /\ structure[i].leaf /\ structure[j].leaf
          /\ Entry(fs, structure[i].path).data = "denied"
          /\ Entry(fs, structure[j].path).data # "denied"

Permuted(s, p) == [i \in DOMAIN s |-> s[p[i]]]

\* C5: the Markdown and the diagram of a tree are the same texts for every
\* order in which the entries of the same mapping were inserted.
C5_SerializersIgnoreInsertionOrder ==
    Analyzed =>
        LET markdown == generate_markdown(structure)
            diagram  == generate_mermaid_diagram(structure)
        IN  \A p \in Orderings(DOMAIN structure) :
                /\ generate_markdown(Permuted(structure, p)) = markdown
                /\ generate_mermaid_diagram(Permuted(structure, p)) = diagram

\* the walk inserted the entries in another order than the alphabetical one
C5_Witness ==
    /\ Analyzed
    /\ Len(structure) >= 2
    /\ structure # PreOrder(structure)

\* C6: the text returned by generate_markdown begins with the title line
\* "# <repo-name>".
C6_TitleFirst ==
    Wrote(1) => StartsWith(Output("README.md"), "# " \o repo_name \o "\n")

\* level of the document title, and of the heading of a top directory
TitleLevel == 1

BaseLevel == 2

\* heading level of the directory (or title) that contains the entry at path
ContainerLevel(path) == IF Len(path) = 1 THEN TitleLevel ELSE BaseLevel + (Len(path) - 2)

\* the section of one entry, a file heading being file_extra levels below the
\* heading of its container
ExpectedSection(e, file_extra) ==
    IF ~e.leaf
    THEN Repeat("#", BaseLevel + (Len(e.path) - 1)) \o " " \o Name(e.path) \o "\n\n"
    ELSE Repeat("#", ContainerLevel(e.path) + file_extra) \o " " \o Name(e.path) \o "\n\n"
         \o Fence \o "\n" \o e.content \o "\n" \o Fence \o "\n\n"

ExpectedMarkdown(s, file_extra) ==
    Concat([i \in DOMAIN s |-> ExpectedSection(PreOrder(s)[i], file_extra)])

\* C7 as stated: a directory at depth d has a heading of level base_level + d
\* and a file a heading one level below the heading of its directory (below
\* the title for a top file), followed by its content in a fenced block.
C7_FileHeadingOneDeeper ==
    Wrote(1) => Output("README.md") = ExpectedMarkdown(structure, 1)

\* C7 amended: a directory at depth d has a heading of level base_level + d
\* and a file a heading two levels below the heading of its directory (level
\* base_level + 1 for a top file), followed by its content in a fenced block.
C7_FileHeadingTwoDeeper ==
    Wrote(1) => Output("README.md") = ExpectedMarkdown(structure, 2)

\* the Markdown of a tree with a top file and a file inside a directory
C7_Witness ==
    /\ HasOutput("README.md")
    /\ \E p, q \in Leaves(structure) : Len(p) = 1 /\ Len(q) >= 2

IndexIn(seq, path) == CHOOSE i \in DOMAIN seq : seq[i].path = path

\* identifier of the node at path: A for the root, else N and its rank in the
\* alphabetical pre-order
ExpectedId(s, path) ==
    IF Len(path) = 0 THEN "A" ELSE "N" \o ToString(IndexIn(PreOrder(s), path))

ExpectedEdge(s, e) ==
    "    " \o ExpectedId(s, Parent(e.path)) \o " --> " \o ExpectedId(s, e.path)
    \o (IF e.leaf THEN "{'" \o Name(e.path) \o "'}" ELSE "[" \o Name(e.path) \o "]")

\* C8: the diagram is the line graph TD, the root node line, and one edge line
\* for each directory and file in alphabetical pre-order, the k-th of them
\* named Nk and reached from the identifier of its parent, with [name] for a
\* directory and {'name'} for a file.
C8_DiagramNodesAndEdges ==
    Wrote(2) =>
        Output("structure.mmd")
            = Join("\n", <<"graph TD", "    A[" \o repo_name \o "]">>
                         \o [i \in DOMAIN structure |->
                                ExpectedEdge(structure, PreOrder(structure)[i])])

\* the diagram of a tree with the same name in two branches
C8_Witness ==
    /\ HasOutput("structure.mmd")
    /\ \E p, q \in Paths(structure) : p # q /\ Name(p) = Name(q)

ConfigFileNames == {"config.json", "settings.py", ".env.example"}

HasConfigFile(s) == \E p \in Leaves(s) : Lower(Name(p)) \in ConfigFileNames

\* C9: a summary is produced (the file system letting it be written), and it
\* holds the section ## Configuration exactly when a file of the tree is
\* named config.json, settings.py or .env.example, in any case.
C9_ConfigurationIffConfigFile ==
    (pc = "done" /\ outdir /\ caught # "OSError") =>
        /\ HasOutput("llms.txt")
        /\ Contains(Output("llms.txt"), "\n## Configuration\n") <=> HasConfigFile(structure)

\* first position of p in s, 0 when absent
FirstIndex(s, p) ==
    LET at == { i \in 1..(Len(s) - Len(p) + 1) : SubSeq(s, i, i + Len(p) - 1) = p }
    IN  IF at = {} THEN 0 ELSE CHOOSE i \in at : \A j \in at : i <= j

HasTestFile(s) == \E p \in Leaves(s) : Contains(Lower(Name(p)), "test")

Positions(secs, header) == { i \in DOMAIN secs : secs[i] = Str(header) }

\* the headers are items of the list in the fixed order, each at most once
OrderedHeaders(secs, s) ==
    LET at(h) == CHOOSE i \in Positions(secs, h) : TRUE
        one(h) == Cardinality(Positions(secs, h)) = 1
    IN  /\ secs[1] = Str("# " \o repo_name)
        /\ one("## Technical Stack") /\ one("## Core Functionality")
        /\ one("## Error Handling") /\ one("## Usage Examples")
        /\ 1 < at("## Technical Stack")
        /\ at("## Technical Stack") < at("## Core Functionality")
        /\ at("## Core Functionality") < at("## Error Handling")
        /\ at("## Error Handling") < at("## Usage Examples")
        /\ IF HasConfigFile(s)
           THEN /\ one("## Configuration")
                /\ at("## Core Functionality") < at("## Configuration")
                /\ at("## Configuration") < at("## Error Handling")
           ELSE Positions(secs, "## Configuration") = {}
        /\ IF HasTestFile(s)
           THEN /\ one("## Development Notes")
                /\ at("## Usage Examples") < at("## Development Notes")
           ELSE Positions(secs, "## Development Notes") = {}

LineStarts(text) ==
    {1} \cup { i + 1 : i \in { j \in 1..Len(text) : Char(text, j) = "\n" } }

\* position of the last character of the line starting at p (p - 1 for an
\* empty line)
LineEnd(text, p) ==
    LET ends == { j \in p..Len(text) : Char(text, j) = "\n" }
    IN  IF ends = {} THEN Len(text)
        ELSE (CHOOSE j \in ends : \A k \in ends : j <= k) - 1

LineAt(text, p) == SubSeq(text, p, LineEnd(text, p))

IsSectionHeader(line) == StartsWith(line, "## ")

\* C11: in the written summary every section header is followed by a body
\* line: a line that is neither blank nor the next header.
C11_NoSectionWithoutBody ==
    Wrote(3) =>
        LET text == Output("llms.txt")
        IN  \A p \in LineStarts(text) :
                IsSectionHeader(LineAt(text, p)) =>
                    LET next == LineEnd(text, p) + 2
                    IN  /\ next \in LineStarts(text)
                        /\ LineAt(text, next) # ""
                        /\ ~IsSectionHeader(LineAt(text, next))

\* the flattened file list of a structure
FlatFiles(s) == collect_files(s, Items(s, <<>>), NoFiles).files

\* the structure of a run over the same tree in which os.walk lists every
\* directory in name order
NameOrderRun(T) == analyze_repo_structure(T, << <<>> >>, <<>>)

\* C12: the flattened file list and the summary built from it are those of
\* any other run over the same tree, whatever order the walk found the
\* entries in.
C12_FlatteningIgnoresDiscoveryOrder ==
    Analyzed =>
        /\ FlatFiles(structure) = FlatFiles(NameOrderRun(fs))
        /\ generate_llms_txt(structure) = generate_llms_txt(NameOrderRun(fs))

\* the file name of a path string
RECURSIVE BaseName(_)
BaseName(p) == IF Contains(p, "/") THEN BaseName(SubSeq(p, 2, Len(p))) ELSE p

EntryPointNames == {"main.py", "index.js", "app.py"}

\* the files of a file list named as an entry point, in the order of the list
EntryPointFiles(files) ==
    SelectSeq(files, LAMBDA f : Lower(BaseName(f.path)) \in EntryPointNames)

\* C13: when several files of the flattened list are named as an entry
\* point, the main file is the first of them, and the written summary shows
\* its path and its functions under Core Functionality.
C13_FirstEntryPointIsUsed ==
    /\ Analyzed =>
          LET c == collect_files(structure, Items(structure, <<>>), NoFiles)
              found == EntryPointFiles(c.files)
          IN  Len(found) >= 2 => (c.has_main /\ c.main_file = found[1])
    /\ Wrote(3) =>
          LET found == EntryPointFiles(FlatFiles(structure))
          IN  Len(found) >= 2 =>
                Contains(Output("llms.txt"),
                         "\n## Core Functionality\nMain entry point: " \o found[1].path
                         \o "\nKey operations:\n"
                         \o Join("\n", _extract_key_functions(found[1].content)) \o "\n")

\* the line of one function definition: name, parameter names, first line of
\* the documentation comment or the default description
FunctionLine(node) ==
    "- " \o Backquote \o node.name \o "(" \o Join(", ", node.args) \o ")" \o Backquote
    \o ": " \o (IF node.doc = "" THEN "No description available" ELSE node.doc)

\* one line per top-level function definition of a text that parses, or the
\* placeholder when it has none
TopLevelFunctionLines(content) ==
    LET top == SelectSeq(Findings(content).defs, LAMBDA node : node.top)
    IN  IF Len(top) = 0 THEN <<"No functions extracted">>
        ELSE [i \in DOMAIN top |-> FunctionLine(top[i])]

\* C14: when the entry-point file parses, _extract_key_functions returns one
\* line per top-level function definition and none for a nested function or
\* a method, none of them coming from the regex pass; the written summary
\* lists exactly these lines under Key operations.
C14_OneLinePerTopLevelFunction ==
    /\ (pc = "generate" /\ Len(written) = 2) =>
          LET c == collect_files(structure, Items(structure, <<>>), NoFiles)
          IN  (c.has_main /\ Findings(c.main_file.content).py) =>
                _extract_key_functions(c.main_file.content)
                    = TopLevelFunctionLines(c.main_file.content)
    /\ Wrote(3) =>
          LET c == collect_files(structure, Items(structure, <<>>), NoFiles)
          IN  (c.has_main /\ Findings(c.main_file.content).py) =>
                Contains(Output("llms.txt"),
                         "\nKey operations:\n"
                         \o Join("\n", TopLevelFunctionLines(c.main_file.content))
                         \o "\n\n## ")

====
